---------------------------- MODULE Spec2Model ----------------------------
(***************************************************************************)
(* A model of the request handlers of src/example.py: /process            *)
(* (process_contract) and /find_clauses (find_clauses), the module-level  *)
(* embedding_cache they share, the temp upload directory, and the         *)
(* completion-service conversation of find_clauses.                       *)
(*                                                                         *)
(* Both handlers are `async def` coroutines of one event loop: a handler  *)
(* runs without interruption from one await to the next, so the model     *)
(* keeps the request that holds the loop in `running` and lets another    *)
(* request step only when the loop is free.                                *)
(***************************************************************************)
EXTENDS Naturals, Integers, Sequences, FiniteSets, TLC

\* ------------------------------------------------------------- bounds
NReq == 2           \* request slots that can be in flight together
NDocs == 2          \* distinct uploaded byte contents
MaxSel == 2         \* entries in one parsed selection reply
MaxSent == 2        \* sentences the classifier may flag in one document
MaxCluster == 2     \* rows the cluster retrieval may return (SpecCand)
MaxBow == 6         \* rows the bow retrieval may return (SpecCand)

\* ---------------------------------------------------------- constants
CutoffNum == 8      \* cutoff=0.8 of get_close_matches, as CutoffNum/CutoffDen
CutoffDen == 10
BowHead == 5        \* .head(5) of df_bow
CAT0 == "unlikely"
CAT1 == "possible"
CAT2 == "likely"
CAT3 == "very likely"
DEFAULT_MODEL == "tngtech/deepseek-r1t2-chimera:free"
OtherModel == "vendor/other-model"

Reqs == 1..NReq
Docs == 1..NDocs
NoReq == 0

\* ------------------------------------------------------------ strings
\* File and clause names are sequences of characters.
Suffix == <<".", "t", "x", "t">>
Ab == <<"a", "b">>
Cd == <<"c", "d">>
Ac == <<"a", "c">>
Zz == <<"z", "z">>

\* names: the corpus index keys, loaded once (utils.getting_started).
names == {Ab \o Suffix, Cd \o Suffix}

\* The clause names the completion service may put in a reply: the two corpus
\* clauses, a misspelling of one, and an invented one.
ReplyNames == {Ab, Cd, Ac, Zz}

\* allowed_extensions, line 119 and line 251.
allowed_extensions == {".txt", ".pdf", ".docx", ".doc", ".md"}

\* str.lower() on the endings of the file names the model uploads.
Lower(e) ==
    CASE e = ".TXT" -> ".txt"
      [] e = ".EXE" -> ".exe"
      [] OTHER -> e

\* A check that lets every file name through.
ExtAllowed_any(e) == TRUE

\* any(file.filename.lower().endswith(ext) for ext in allowed_extensions)
ExtAllowed(e) == Lower(e) \in allowed_extensions

\* hashlib.md5(content).hexdigest(): distinct contents, distinct digests.
FileHash(d) == <<"md5", d>>
Hashes == {FileHash(d) : d \in Docs}

\* utils.convert_file_to_text(content, filename): the text depends on the bytes
\* and on the converter the extension selects.
ConvertFileToText(d, e) == <<"text", d, IF e = ".txt" THEN "decoded" ELSE "converted">>

\* utils.encode_text(text, tokenizer, c_model): a function of the text.
EncodeText(t) == <<"emb", t>>

None == <<>>

\* target = clause + ".txt"
WithTxt(c) == c \o Suffix

\* row["Clause Name"].replace(".txt", "")
RECURSIVE StripTxt(_)
StripTxt(s) ==
    IF Len(s) < Len(Suffix) THEN s
    ELSE IF SubSeq(s, 1, Len(Suffix)) = Suffix
         THEN StripTxt(SubSeq(s, Len(Suffix) + 1, Len(s)))
         ELSE <<Head(s)>> \o StripTxt(Tail(s))

\* --------------------------------------------- difflib.get_close_matches
\* Length of the common run of a from i and b from j.
RECURSIVE CommonLen(_, _, _, _)
CommonLen(a, b, i, j) ==
    IF i > Len(a) \/ j > Len(b) \/ a[i] # b[j] THEN 0
    ELSE 1 + CommonLen(a, b, i + 1, j + 1)

\* SequenceMatcher.find_longest_match: the longest common block, the one that
\* starts earliest in a and, of those, earliest in b.
LongestMatch(a, b) ==
    LET Pairs == (1..Len(a)) \X (1..Len(b))
        best == CHOOSE p \in Pairs :
                  \A q \in Pairs :
                     LET kp == CommonLen(a, b, p[1], p[2])
                         kq == CommonLen(a, b, q[1], q[2])
                     IN  \/ kp > kq
                         \/ kp = kq /\ p[1] < q[1]
                         \/ kp = kq /\ p[1] = q[1] /\ p[2] <= q[2]
    IN  [i |-> best[1], j |-> best[2], k |-> CommonLen(a, b, best[1], best[2])]

\* The number of matched characters: the longest block, then the same on the
\* pieces to its left and to its right (SequenceMatcher.get_matching_blocks).
RECURSIVE MatchCount(_, _)
MatchCount(a, b) ==
    IF Len(a) = 0 \/ Len(b) = 0 THEN 0
    ELSE LET m == LongestMatch(a, b)
         IN  IF m.k = 0 THEN 0
             ELSE m.k
                  + MatchCount(SubSeq(a, 1, m.i - 1), SubSeq(b, 1, m.j - 1))
                  + MatchCount(SubSeq(a, m.i + m.k, Len(a)),
                               SubSeq(b, m.j + m.k, Len(b)))

\* ratio() >= cutoff, with ratio = 2*M/T.
RatioAtLeastCutoff(a, b) ==
    2 * MatchCount(a, b) * CutoffDen >= CutoffNum * (Len(a) + Len(b))

\* utils.get_close_matches(target, names, n=1, cutoff=0.8) is non-empty.
HasCloseMatch(target) == \E x \in names : RatioAtLeastCutoff(x, target)


\* Validation results of the reply names, computed once.
CloseTable == [c \in ReplyNames |-> HasCloseMatch(WithTxt(c))]

\* A validation that looks at the first returned name only.
Missing_firstOnly(rows) ==
    IF rows # <<>> /\ ~CloseTable[rows[1]] THEN <<rows[1]>> ELSE <<>>

\* Lines 384-390: the clause names of df_response with no close match.
Missing(rows) == SelectSeq(rows, LAMBDA c : ~CloseTable[c])

\* ------------------------------------------------------- small helpers
RECURSIVE SeqsUpTo(_, _)
SeqsUpTo(S, n) ==
    IF n = 0 THEN {<<>>}
    ELSE LET shorter == SeqsUpTo(S, n - 1)
         IN  shorter \cup {Append(q, x) : q \in shorter, x \in S}

Range(q) == {q[i] : i \in 1..Len(q)}

\* ------------------------------------------------------ the environment
\* What a completion call can do: raise (the service is unreachable, the call
\* is refused), or return a reply whose content is text.  A selection reply is
\* either not parseable or a JSON list of {"Clause Name", "Reasoning"} objects.
SelectionReplies(N, n) ==
    {[json |-> FALSE, rows |-> <<>>]}
        \cup {[json |-> TRUE, rows |-> q] : q \in SeqsUpTo(N, n)}

\* utils.parse_response(response_text): None, or the rows of the reply.
NoDf == [ok |-> FALSE, rows |-> <<>>]
ParseResponse(reply) ==
    IF reply.json THEN [ok |-> TRUE, rows |-> reply.rows] ELSE NoDf

\* utils.perform_cluster: every corpus entry of the cluster the query is
\* assigned to (none when no label can be assigned); source names carry no
\* suffix.
ClusterChoices == {<<>>, <<Ab>>, <<Cd>>}

\* utils.find_top_similar_bow over file_names=names, then
\* utils.get_embedding_matches_subset(..., k=5): corpus keys, no repeats.
BowChoices ==
    {q \in SeqsUpTo(names, Cardinality(names)) :
        \A i, j \in 1..Len(q) : i # j => q[i] # q[j]}

\* A bow frame that keeps every row.
HeadRows_all(q, n) == q

\* Lines 291-302: df_cluster, df_bow.head(5), pd.concat([df_cluster, df_bow]).
HeadRows(q, n) == SubSeq(q, 1, IF Len(q) < n THEN Len(q) ELSE n)
CombinedDf(cluster, bow) ==
    [i \in 1..Len(cluster) |->
        [source_name |-> cluster[i], matched_by |-> "cluster"]]
    \o HeadRows([i \in 1..Len(bow) |->
                    [source_name |-> bow[i], matched_by |-> "bow"]], BowHead)

\* utils.create_threshold_buckets / utils.print_single: the label of the
\* bucket the document falls in, by the number of flagged sentences.
Bucket(flagged) ==
    IF flagged = 0 THEN CAT0
    ELSE IF flagged = 1 THEN CAT1
    ELSE IF flagged = 2 THEN CAT2
    ELSE CAT3

\* ---------------------------------------------------------------- state
VARIABLES
    running,        \* the request that holds the event loop, or NoReq
    OPENROUTER_MODEL, \* os.getenv("OPENROUTER_MODEL", DEFAULT_MODEL), line 96
    embedding_cache,  \* line 92: file hash -> entry
    dirExists,      \* os.path.exists(temp_dir)
    dirFiles,       \* the files in temp_dir
    req,            \* per request slot: the handler's locals and position
    live,           \* history: per hash, the embedding a /process request
                    \*   computed since the last /find_clauses lookup of it
    computedFor     \* history: per hash, an embedding was computed since the
                    \*   last removal of its entry

vars == <<running, OPENROUTER_MODEL, embedding_cache, dirExists, dirFiles,
          req, live, computedFor>>

NoResp == [status |-> 0, body |-> "none", matches |-> <<>>]

\* A free slot: no request, every local unset.
IdleReq ==
    [kind |-> "none", pc |-> "idle", doc |-> 0, ext |-> "",
     emb |-> None, computed |-> FALSE, recomputed |-> FALSE, expect |-> None,
     subset_names |-> <<>>, top_names_bow |-> <<>>,
     cands |-> <<>>, messages |-> <<>>, sent |-> <<>>,
     outcome |-> "none",
     df |-> NoDf, missing |-> <<>>, validated |-> FALSE, enriched |-> 0,
     loaded |-> {}, flagged |-> 0, resp |-> NoResp]

\* A handler that also awaits between reading the cache entry and deleting it.
AwaitPoints_takeYields == {"idle", "read", "del"}

\* The positions at which a handler is suspended and the loop is free: before
\* it starts, and at `await file.read()` (lines 129, 260).
AwaitPoints == {"idle", "read"}

\* The request may take its next step: it holds the loop, or the loop is free
\* and the request is suspended at an await.
CanStep(r) ==
    \/ running = r
    \/ running = NoReq /\ req[r].pc \in AwaitPoints

\* Who holds the loop after request r moves to position p.
Holder(r, p) == IF p \in AwaitPoints THEN NoReq ELSE r

Init ==
    /\ running = NoReq
    /\ OPENROUTER_MODEL = OtherModel
    /\ embedding_cache = [h \in {} |-> None]
    /\ dirExists \in BOOLEAN
    /\ dirFiles = {}
    /\ req = [r \in Reqs |-> IdleReq]
    /\ live = [h \in Hashes |-> None]
    /\ computedFor = [h \in Hashes |-> FALSE]

\* Lines 121-126 and 253-258: status 400, the message lists allowed_extensions.
UnsupportedFile ==
    [status |-> 400,
     body |-> "Only .txt, .pdf, .docx, .doc, .md files are supported.",
     matches |-> <<>>]
\* Lines 140-145 and 266-271: status 400, "Error converting file to text: ...".
Error400 == [status |-> 400, body |-> "error", matches |-> <<>>]
\* An exception that leaves the handler: the server answers 500.
Raise(exception) == [status |-> 500, body |-> exception, matches |-> <<>>]
\* The exceptions of the model: a completion call that fails, open() in a
\* directory that is gone, a dict key that is gone.
CompletionError == Raise("APIError")
FileNotFound == Raise("FileNotFoundError")
KeyError == Raise("KeyError")
\* return {"matches": [...]}
MatchesResp(m) == [status |-> 200, body |-> "matches", matches |-> m]
\* JSONResponse(content=response) of /process
ClassResp(label) == [status |-> 200, body |-> label, matches |-> <<>>]

\* The handler of r returns (or raises) with response x.
Return(r, rec, x) ==
    /\ req' = [req EXCEPT ![r] = [rec EXCEPT !.pc = "return", !.resp = x]]
    /\ running' = r

\* The handler of r moves on to position p with locals rec.
Goto(r, rec, p) ==
    /\ req' = [req EXCEPT ![r] = [rec EXCEPT !.pc = p]]
    /\ running' = Holder(r, p)

\* ------------------------------------------------------ embedding_cache
\* A /process that computes the embedding and does not store it.
CachePut_noStore(c, h, e, t) == c

\* A removal that leaves the entry in place.
CacheDel_keep(c, h) == c

\* embedding_cache[file_hash] = {...}, lines 183-186.  `reads` is history: how
\* many /find_clauses requests have read this entry.
CachePut(c, h, e, t) ==
    [k \in DOMAIN c \cup {h} |->
        IF k = h THEN [embedding |-> e, text |-> t, reads |-> 0] ELSE c[k]]

\* del embedding_cache[file_hash], line 279.
CacheDel(c, h) == [k \in DOMAIN c \ {h} |-> c[k]]

\* ------------------------------------------------------------- /process
\* Lines 113-129: clean and recreate temp_dir, check the extension, and
\* suspend at `await file.read()`.
PStart(r, docs, exts) ==
    /\ CanStep(r)
    /\ req[r].pc = "idle"
    /\ \E d \in docs, e \in exts :
         LET rec == [IdleReq EXCEPT !.kind = "process", !.doc = d, !.ext = e]
         IN  /\ dirExists' = TRUE
             /\ dirFiles' = {}
             /\ IF ExtAllowed(e) THEN Goto(r, rec, "read")
                                 ELSE Return(r, rec, UnsupportedFile)
    /\ UNCHANGED <<OPENROUTER_MODEL, embedding_cache, live, computedFor>>

\* The files request r writes into temp_dir: the upload under its own name
\* (line 133) and the text as <base>.txt (line 151).
OriginalFile(r) == [owner |-> r, ext |-> req[r].ext]
TxtFile(r) == [owner |-> r, ext |-> ".txt"]

\* Lines 132-152, resumed after the await: save the upload, convert it (the
\* converter can raise: status 400), save the text.  open() raises when
\* temp_dir is gone.
PSave(r) ==
    /\ CanStep(r)
    /\ req[r].kind = "process" /\ req[r].pc = "read"
    /\ IF ~dirExists
       THEN /\ Return(r, req[r], FileNotFound)
            /\ UNCHANGED dirFiles
       ELSE \E converts \in BOOLEAN :
              IF converts
              THEN /\ dirFiles' = dirFiles \cup {OriginalFile(r), TxtFile(r)}
                   /\ Goto(r, req[r], "embed")
              ELSE /\ dirFiles' = dirFiles \cup {OriginalFile(r)}
                   /\ Return(r, req[r], Error400)
    /\ UNCHANGED <<OPENROUTER_MODEL, embedding_cache, dirExists, live,
                   computedFor>>

\* Lines 181-186: hash the bytes, embed the text, store the entry.
PEmbed(r) ==
    /\ CanStep(r)
    /\ req[r].kind = "process" /\ req[r].pc = "embed"
    /\ LET h == FileHash(req[r].doc)
           t == ConvertFileToText(req[r].doc, req[r].ext)
           e == EncodeText(t)
       IN  /\ embedding_cache' = CachePut(embedding_cache, h, e, t)
           /\ live' = [live EXCEPT ![h] = e]
           /\ computedFor' = [computedFor EXCEPT ![h] = TRUE]
           /\ Goto(r, [req[r] EXCEPT !.emb = e, !.computed = TRUE,
                                     !.recomputed = computedFor[h]], "classify")
    /\ UNCHANGED <<OPENROUTER_MODEL, dirExists, dirFiles>>

\* utils.load_unlabelled_contract(temp_dir): the .txt files of the directory
\* (line 147: the text is saved as .txt for it to process), by who wrote them.
LoadUnlabelledContract(files) == {f.owner : f \in {g \in files : g.ext = ".txt"}}

\* Lines 188-193: load the directory, the classifier flags some sentences.
PClassify(r) ==
    /\ CanStep(r)
    /\ req[r].kind = "process" /\ req[r].pc = "classify"
    /\ IF ~dirExists
       THEN Return(r, req[r], FileNotFound)
       ELSE \E n \in 0..MaxSent :
              Goto(r, [req[r] EXCEPT !.loaded = LoadUnlabelledContract(dirFiles),
                                     !.flagged = n], "finish")
    /\ UNCHANGED <<OPENROUTER_MODEL, embedding_cache, dirExists, dirFiles,
                   live, computedFor>>

\* A handler whose label also depends on module-level state: the number of
\* cache entries is added to the count the buckets are cut from.
PFinish_sharedCount(r) ==
    /\ CanStep(r)
    /\ req[r].kind = "process" /\ req[r].pc = "finish"
    /\ dirExists' = FALSE
    /\ dirFiles' = {}
    /\ Return(r, req[r], ClassResp(Bucket(req[r].flagged
                                           + Cardinality(DOMAIN embedding_cache))))
    /\ UNCHANGED <<OPENROUTER_MODEL, embedding_cache, live, computedFor>>

\* Lines 195-246: render, bucket, shutil.rmtree(temp_dir, ignore_errors=True),
\* respond.
PFinish(r) ==
    /\ CanStep(r)
    /\ req[r].kind = "process" /\ req[r].pc = "finish"
    /\ dirExists' = FALSE
    /\ dirFiles' = {}
    /\ Return(r, req[r], ClassResp(Bucket(req[r].flagged)))
    /\ UNCHANGED <<OPENROUTER_MODEL, embedding_cache, live, computedFor>>

\* The response is sent and the handler's frame is gone: the slot is free.
Respond(r) ==
    /\ running = r
    /\ req[r].pc = "return"
    /\ req' = [req EXCEPT ![r] = IdleReq]
    /\ running' = NoReq
    /\ UNCHANGED <<OPENROUTER_MODEL, embedding_cache, dirExists, dirFiles,
                   live, computedFor>>

\* -------------------------------------------------------- /find_clauses
Msg(role, content) == [role |-> role, content |-> content]

\* client.chat.completions.create(model=m, messages=msgs, temperature=0):
\* the record of one call issued.
Call(m, msgs) == [model |-> m, temperature |-> 0, messages |-> msgs]

\* The model the retry call names, line 408.
RetryModel == DEFAULT_MODEL

\* A first parse failure answered with an error status.
FirstParseFailure_error == Error400

\* Lines 378-382: the first selection reply does not parse.
FirstParseFailure == MatchesResp(<<>>)

\* A retry parse failure left to raise.
RetryParseFailure_raise == Raise("TypeError")

\* Lines 415-419: the retried reply does not parse.
RetryParseFailure == MatchesResp(<<>>)

\* A retry that validates its reply again, and so retries again.
AfterRetry_revalidate == "validate"

\* Line 421: where the handler goes on once the retried reply has parsed.
AfterRetry == "enrich"

\* Lines 251-260: check the extension and suspend at `await file.read()`.
FStart(r, docs, exts) ==
    /\ CanStep(r)
    /\ req[r].pc = "idle"
    /\ \E d \in docs, e \in exts :
         LET rec == [IdleReq EXCEPT !.kind = "find", !.doc = d, !.ext = e]
         IN  IF ExtAllowed(e) THEN Goto(r, rec, "read")
                              ELSE Return(r, rec, UnsupportedFile)
    /\ UNCHANGED <<OPENROUTER_MODEL, embedding_cache, dirExists, dirFiles,
                   live, computedFor>>

\* Lines 263-271, resumed after the await: convert the upload to text.
FConvert(r) ==
    /\ CanStep(r)
    /\ req[r].kind = "find" /\ req[r].pc = "read"
    /\ \E converts \in BOOLEAN :
         IF converts THEN Goto(r, req[r], "lookup")
                     ELSE Return(r, req[r], Error400)
    /\ UNCHANGED <<OPENROUTER_MODEL, embedding_cache, dirExists, dirFiles,
                   live, computedFor>>

\* Lines 274-275: `if file_hash in embedding_cache`.
FLookup(r) ==
    /\ CanStep(r)
    /\ req[r].kind = "find" /\ req[r].pc = "lookup"
    /\ LET h == FileHash(req[r].doc)
       IN  /\ live' = [live EXCEPT ![h] = None]
           /\ Goto(r, [req[r] EXCEPT !.expect = live[h]],
                   IF h \in DOMAIN embedding_cache THEN "hit" ELSE "miss")
    /\ UNCHANGED <<OPENROUTER_MODEL, embedding_cache, dirExists, dirFiles,
                   computedFor>>

\* Line 277: query_embedding = embedding_cache[file_hash]['embedding'];
\* a KeyError when the entry is gone.
FHitRead(r) ==
    /\ CanStep(r)
    /\ req[r].kind = "find" /\ req[r].pc = "hit"
    /\ LET h == FileHash(req[r].doc)
       IN  IF h \in DOMAIN embedding_cache
           THEN /\ embedding_cache' =
                      [embedding_cache EXCEPT ![h].reads = @ + 1]
                /\ Goto(r, [req[r] EXCEPT !.emb = embedding_cache[h].embedding],
                        "del")
           ELSE /\ Return(r, req[r], KeyError)
                /\ UNCHANGED embedding_cache
    /\ UNCHANGED <<OPENROUTER_MODEL, dirExists, dirFiles, live, computedFor>>

\* Line 279: del embedding_cache[file_hash]; a KeyError when the entry is gone.
FDel(r) ==
    /\ CanStep(r)
    /\ req[r].kind = "find" /\ req[r].pc = "del"
    /\ LET h == FileHash(req[r].doc)
       IN  IF h \in DOMAIN embedding_cache
           THEN /\ embedding_cache' = CacheDel(embedding_cache, h)
                /\ computedFor' = [computedFor EXCEPT ![h] = FALSE]
                /\ Goto(r, req[r], "retrieve")
           ELSE /\ Return(r, req[r], KeyError)
                /\ UNCHANGED <<embedding_cache, computedFor>>
    /\ UNCHANGED <<OPENROUTER_MODEL, dirExists, dirFiles, live>>

\* Line 282: no entry, embed the query text.
FMiss(r) ==
    /\ CanStep(r)
    /\ req[r].kind = "find" /\ req[r].pc = "miss"
    /\ LET h == FileHash(req[r].doc)
           e == EncodeText(ConvertFileToText(req[r].doc, req[r].ext))
       IN  /\ computedFor' = [computedFor EXCEPT ![h] = TRUE]
           /\ Goto(r, [req[r] EXCEPT !.emb = e, !.computed = TRUE,
                                     !.recomputed = computedFor[h]], "retrieve")
    /\ UNCHANGED <<OPENROUTER_MODEL, embedding_cache, dirExists, dirFiles,
                   live>>

\* A handler that answers without the protocol when no row was matched by the
\* cluster.
AfterRetrieve_needsCluster(cands) ==
    IF \E i \in 1..Len(cands) : cands[i].matched_by = "cluster"
    THEN "context" ELSE "enrich"

\* Lines 302-317: whatever combined_df holds, the handler goes on to the
\* context call.
AfterRetrieve(cands) == "context"

\* Lines 284-315: the two retrievals, combined_df, and the first two messages.
FRetrieve(r, clusters, bows) ==
    /\ CanStep(r)
    /\ req[r].kind = "find" /\ req[r].pc = "retrieve"
    /\ \E cluster \in clusters, bow \in bows :
         Goto(r, [req[r] EXCEPT
                    !.subset_names = cluster,
                    !.top_names_bow = bow,
                    !.cands = CombinedDf(cluster, bow),
                    !.messages = <<Msg("system", "instructions"),
                                   Msg("user", "contract")>>],
              AfterRetrieve(CombinedDf(cluster, bow)))
    /\ UNCHANGED <<OPENROUTER_MODEL, embedding_cache, dirExists, dirFiles,
                   live, computedFor>>

\* Lines 317-366: the context call; its reply is appended unvalidated, then the
\* clause block that enumerates combined_df.
FContext(r) ==
    /\ CanStep(r)
    /\ req[r].kind = "find" /\ req[r].pc = "context"
    /\ LET rec == [req[r] EXCEPT
                     !.sent = Append(@, Call(OPENROUTER_MODEL, req[r].messages))]
       IN  \E raises \in BOOLEAN :
             IF raises
             THEN Return(r, [rec EXCEPT !.outcome = "raised"], CompletionError)
             ELSE Goto(r, [rec EXCEPT !.outcome = "reply", !.messages =
                             @ \o <<Msg("assistant", "assistant_reply_1"),
                                    Msg("user", "clause_block")>>],
                       "select")
    /\ UNCHANGED <<OPENROUTER_MODEL, embedding_cache, dirExists, dirFiles,
                   live, computedFor>>

\* Lines 368-382: the selection call and the parse of its reply.
FSelect(r, replies) ==
    /\ CanStep(r)
    /\ req[r].kind = "find" /\ req[r].pc = "select"
    /\ LET rec == [req[r] EXCEPT
                     !.sent = Append(@, Call(OPENROUTER_MODEL, req[r].messages))]
       IN  \/ Return(r, [rec EXCEPT !.outcome = "raised"], CompletionError)
           \/ \E reply \in replies :
                LET df == ParseResponse(reply)
                IN  IF ~df.ok
                    THEN Return(r, [rec EXCEPT !.outcome = "unparsed"],
                                FirstParseFailure)
                    ELSE Goto(r, [rec EXCEPT !.outcome = "parsed", !.df = df],
                              "validate")
    /\ UNCHANGED <<OPENROUTER_MODEL, embedding_cache, dirExists, dirFiles,
                   live, computedFor>>

\* Lines 384-392: collect the names without a close match.
FValidate(r) ==
    /\ CanStep(r)
    /\ req[r].kind = "find" /\ req[r].pc = "validate"
    /\ LET missing == Missing(req[r].df.rows)
       IN  Goto(r, [req[r] EXCEPT !.missing = missing, !.validated = TRUE],
                IF missing # <<>> THEN "retry" ELSE "enrich")
    /\ UNCHANGED <<OPENROUTER_MODEL, embedding_cache, dirExists, dirFiles,
                   live, computedFor>>

\* A correction appended without the reply it corrects.
RetryMessages_noAssistant(msgs) == Append(msgs, Msg("user", "correction"))

\* Lines 395-404: the rejected reply as an assistant message, then the
\* correction as a user message.
RetryMessages(msgs) ==
    msgs \o <<Msg("assistant", "response_text"), Msg("user", "correction")>>

\* Lines 393-419: append the bad reply and the correction, call again, parse.
FRetry(r, replies) ==
    /\ CanStep(r)
    /\ req[r].kind = "find" /\ req[r].pc = "retry"
    /\ LET msgs == RetryMessages(req[r].messages)
           rec == [req[r] EXCEPT !.messages = msgs,
                                 !.sent = Append(@, Call(RetryModel, msgs))]
       IN  \/ Return(r, [rec EXCEPT !.outcome = "raised"], CompletionError)
           \/ \E reply \in replies :
                LET df == ParseResponse(reply)
                IN  IF ~df.ok
                    THEN Return(r, [rec EXCEPT !.outcome = "unparsed"],
                                RetryParseFailure)
                    ELSE Goto(r, [rec EXCEPT !.outcome = "parsed", !.df = df],
                              AfterRetry)
    /\ UNCHANGED <<OPENROUTER_MODEL, embedding_cache, dirExists, dirFiles,
                   live, computedFor>>

\* utils.get_emission_label(df_response, emission_df): labels are attached, the
\* rows stay.
GetEmissionLabel(rows) == rows

\* Matches built only from the rows whose name has a close match.
BuildMatches_validOnly(rows) ==
    LET valid == SelectSeq(rows, LAMBDA c : CloseTable[c])
    IN  [i \in 1..Len(valid) |-> StripTxt(valid[i])]

\* Lines 425-434: one match per row, named by the clause name without ".txt".
BuildMatches(rows) == [i \in 1..Len(rows) |-> StripTxt(rows[i])]

\* Lines 421-436: enrich and build the matches.
FEnrich(r) ==
    /\ CanStep(r)
    /\ req[r].kind = "find" /\ req[r].pc = "enrich"
    /\ Return(r, [req[r] EXCEPT !.enriched = @ + 1],
              MatchesResp(BuildMatches(GetEmissionLabel(req[r].df.rows))))
    /\ UNCHANGED <<OPENROUTER_MODEL, embedding_cache, dirExists, dirFiles,
                   live, computedFor>>

\* --------------------------------------------------------- specification
\* Spec: NReq request slots serve /process and /find_clauses requests over
\* NDocs contents, in every interleaving the event loop allows; the completion
\* service answers from a small set of replies.
LightReplies == SelectionReplies({Ab, Zz}, 1)
LightClusters == {<<Ab>>}
LightBows == {<<>>}
LightExts == {".txt", ".exe"}

Next ==
    \E r \in Reqs :
        \/ PStart(r, Docs, LightExts) \/ PSave(r) \/ PEmbed(r) \/ PClassify(r)
        \/ PFinish(r)
        \/ FStart(r, Docs, LightExts) \/ FConvert(r) \/ FLookup(r) \/ FHitRead(r)
        \/ FDel(r) \/ FMiss(r) \/ FRetrieve(r, LightClusters, LightBows)
        \/ FContext(r) \/ FSelect(r, LightReplies) \/ FValidate(r)
        \/ FRetry(r, LightReplies) \/ FEnrich(r)
        \/ Respond(r)

Spec == Init /\ [][Next]_vars

\* FairSpec: Spec, and the event loop keeps running a handler that can go on:
\* a request that has been accepted is served to its response once every call
\* it makes has returned.  That a further request arrives is up to the
\* clients and is not assumed.
Handler(r) ==
    \/ PSave(r) \/ PEmbed(r) \/ PClassify(r) \/ PFinish(r)
    \/ FConvert(r) \/ FLookup(r) \/ FHitRead(r) \/ FDel(r) \/ FMiss(r)
    \/ FRetrieve(r, LightClusters, LightBows)
    \/ FContext(r) \/ FSelect(r, LightReplies) \/ FValidate(r)
    \/ FRetry(r, LightReplies) \/ FEnrich(r)
    \/ Respond(r)

FairSpec == Spec /\ \A r \in Reqs : WF_vars(Handler(r))

\* SpecSel: one /find_clauses request after another, against every candidate
\* set and every reply of up to MaxSel entries.  The cache may hold the entry
\* an earlier /process request left for the document.
SelDoc == CHOOSE d \in Docs : TRUE
SelExts == {".txt", ".pdf", ".exe"}
SelReplies == SelectionReplies(ReplyNames, MaxSel)

InitSel ==
    /\ running = NoReq
    /\ OPENROUTER_MODEL \in {DEFAULT_MODEL, OtherModel}
    /\ \E stored \in BOOLEAN :
         LET t == ConvertFileToText(SelDoc, ".txt")
         IN  /\ embedding_cache =
                  IF stored
                  THEN CachePut([h \in {} |-> None], FileHash(SelDoc),
                                EncodeText(t), t)
                  ELSE [h \in {} |-> None]
             /\ live = [h \in Hashes |->
                          IF stored /\ h = FileHash(SelDoc)
                          THEN EncodeText(t) ELSE None]
             /\ computedFor = [h \in Hashes |-> stored /\ h = FileHash(SelDoc)]
    /\ dirExists = FALSE
    /\ dirFiles = {}
    /\ req = [r \in Reqs |-> IdleReq]

NextSel ==
    \/ FStart(1, {SelDoc}, SelExts) \/ FConvert(1) \/ FLookup(1) \/ FHitRead(1)
    \/ FDel(1) \/ FMiss(1) \/ FRetrieve(1, ClusterChoices, BowChoices)
    \/ FContext(1) \/ FSelect(1, SelReplies) \/ FValidate(1)
    \/ FRetry(1, SelReplies) \/ FEnrich(1)
    \/ Respond(1)

SpecSel == InitSel /\ [][NextSel]_vars

\* SpecCand: one /find_clauses request after another, against retrieval
\* results of every length up to MaxCluster and MaxBow, repeats included (what
\* the two retrieval helpers return is theirs to decide); the completion
\* service answers from the small set of replies.
CandClusters == SeqsUpTo({Ab, Cd}, MaxCluster)
CandBows == SeqsUpTo(names, MaxBow)

NextCand ==
    \/ FStart(1, {SelDoc}, LightExts) \/ FConvert(1) \/ FLookup(1) \/ FHitRead(1)
    \/ FDel(1) \/ FMiss(1) \/ FRetrieve(1, CandClusters, CandBows)
    \/ FContext(1) \/ FSelect(1, LightReplies) \/ FValidate(1)
    \/ FRetry(1, LightReplies) \/ FEnrich(1)
    \/ Respond(1)

SpecCand == InitSel /\ [][NextCand]_vars

\* SpecSeq: requests of both kinds served one after another, with file names
\* in lower and upper case.
SeqExts == {".txt", ".TXT", ".exe", ".EXE"}

NextSeq ==
    \/ PStart(1, Docs, SeqExts) \/ PSave(1) \/ PEmbed(1) \/ PClassify(1)
    \/ PFinish(1)
    \/ FStart(1, Docs, SeqExts) \/ FConvert(1) \/ FLookup(1) \/ FHitRead(1)
    \/ FDel(1) \/ FMiss(1) \/ FRetrieve(1, LightClusters, LightBows)
    \/ FContext(1) \/ FSelect(1, LightReplies) \/ FValidate(1)
    \/ FRetry(1, LightReplies) \/ FEnrich(1)
    \/ Respond(1)

SpecSeq == Init /\ [][NextSeq]_vars

\* FairSeq: SpecSeq, and the event loop keeps running the accepted request:
\* every step of the handler is taken once it can be, a completion call
\* included (the call comes back, with a reply or with an exception).
FairSeq == SpecSeq /\ WF_vars(Handler(1))

\* ================================================================ claims
FindReqs == {r \in Reqs : req[r].kind = "find"}
Calls(r) == Len(req[r].sent)
LastContent(call) == call.messages[Len(call.messages)].content
Returned(r) == req[r].pc = "return"
\* The clause names of rows that have no close match among names.
Invalid(rows) == {i \in 1..Len(rows) : ~CloseTable[rows[i]]}

\* C1: one /find_clauses request issues at most 3 completion calls, in the
\* order context confirmation, selection, retry.
C1_AtMostThreeCalls ==
    \A r \in FindReqs :
        /\ Calls(r) <= 3
        /\ Calls(r) >= 1 => LastContent(req[r].sent[1]) = "contract"
        /\ Calls(r) >= 2 => LastContent(req[r].sent[2]) = "clause_block"
        /\ Calls(r) >= 3 => LastContent(req[r].sent[3]) = "correction"

\* A request that has returned after all three calls.
C1_Witness == \E r \in FindReqs : Returned(r) /\ Calls(r) = 3

\* C2: the retry call is issued exactly when the first selection reply parsed
\* and at least one of its names failed validation; it is issued once and no
\* completion call follows it, whatever the retried reply holds.
C2_RetryStep(r) ==
    /\ (Calls(r) # 3 /\ Len(req'[r].sent) = 3)
         => /\ Calls(r) = 2
            /\ req[r].df.ok
            /\ Invalid(req[r].df.rows) # {}
    /\ (req[r].pc = "validate" /\ req'[r].pc # "validate")
         => (req'[r].pc = "retry" <=> Invalid(req[r].df.rows) # {})
    /\ (req[r].pc = "retry" /\ req'[r].pc # "retry")
         => Len(req'[r].sent) = 3
    /\ Calls(r) = 3 => Len(req'[r].sent) \in {0, 3}

C2_RetryExactlyOnce == [][\A r \in Reqs : C2_RetryStep(r)]_vars

\* The retried reply parsed and again holds an invalid name, and the request
\* has returned after three calls.
C2_Witness ==
    \E r \in FindReqs :
        /\ Returned(r) /\ Calls(r) = 3
        /\ req[r].df.ok /\ Invalid(req[r].df.rows) # {}

\* C3: every returned name, with ".txt" re-appended, is a key of the corpus
\* index.
C3_MatchesAreCorpusKeys ==
    \A r \in FindReqs :
        Returned(r) =>
            \A i \in 1..Len(req[r].resp.matches) :
                WithTxt(req[r].resp.matches[i]) \in names

\* The clauses the request enumerated to the completion service, lines 329-335.
CandidateNames(r) == {StripTxt(c.source_name) : c \in Range(req[r].cands)}

\* C4: a returned clause that is in the corpus is one of the candidates the
\* request enumerated (the rows of combined_df).
C4_MatchesAreCandidates ==
    \A r \in FindReqs :
        Returned(r) =>
            \A i \in 1..Len(req[r].resp.matches) :
                WithTxt(req[r].resp.matches[i]) \in names
                    => req[r].resp.matches[i] \in CandidateNames(r)

\* C5 as claimed: once the retry has been issued, the request ends with
\* {"matches": []} or with matches, never with an error status.
C5_RetryNeverErrors ==
    \A r \in FindReqs :
        (Returned(r) /\ Calls(r) = 3) => req[r].resp.status = 200

\* C5 as amended: a retry whose reply does not parse ends the request with
\* status 200 and {"matches": []}, the enricher not invoked; the only error
\* status after a retry is the retry call itself raising.
C5_RetryParseFailureIsEmpty ==
    \A r \in FindReqs :
        (Returned(r) /\ Calls(r) = 3) =>
            /\ req[r].outcome = "unparsed"
                 => req[r].resp = MatchesResp(<<>>) /\ req[r].enriched = 0
            /\ req[r].resp.status # 200 => req[r].outcome = "raised"

C5_Witness ==
    \E r \in FindReqs :
        Returned(r) /\ Calls(r) = 3 /\ req[r].outcome = "unparsed"

\* C6: a first selection reply that does not parse ends the request at once
\* with {"matches": []}: no validation, no retry call, no message appended, no
\* enrichment.
C6_FirstParseFailure ==
    \A r \in FindReqs :
        (Returned(r) /\ Calls(r) = 2 /\ req[r].outcome = "unparsed") =>
            /\ req[r].resp = MatchesResp(<<>>)
            /\ ~req[r].validated
            /\ req[r].messages = req[r].sent[2].messages
            /\ req[r].enriched = 0

C6_Witness ==
    \E r \in FindReqs :
        Returned(r) /\ Calls(r) = 2 /\ req[r].outcome = "unparsed"

\* ------------------------------------------------------ cache and requests
ProcessReqs == {r \in Reqs : req[r].kind = "process"}
HashOf(r) == FileHash(req[r].doc)
\* A /find_clauses request is between its lookup of h and the removal.
MidTake(h) ==
    \E r \in FindReqs : HashOf(r) = h /\ req[r].pc \in {"hit", "del"}

\* C7 as claimed: no request computes an embedding for a content whose
\* embedding an earlier request has computed, unless the entry was removed in
\* between.
C7_SecondRequestReuses == \A r \in Reqs : ~req[r].recomputed

\* C7 as amended: a /find_clauses request whose lookup follows the embedding
\* computation of a /process request with the same content, with no other
\* /find_clauses lookup of that content in between, does not compute an
\* embedding: it uses the one that /process request computed.
C7_FindReusesProcessEmbedding ==
    \A r \in FindReqs :
        (req[r].expect # None /\ req[r].pc \notin {"lookup", "hit"}) =>
            /\ req[r].emb = req[r].expect
            /\ ~req[r].computed

\* A /find_clauses request has taken over the embedding of a /process request.
C7_Witness ==
    \E r \in FindReqs :
        req[r].expect # None /\ req[r].emb = req[r].expect /\ Returned(r)

\* C8: the lookup-and-remove of /find_clauses is atomic under every
\* interleaving: an entry is read by at most one /find_clauses request, the
\* removal never meets a key that is gone, and a request that finds no entry
\* computes the embedding of its own text and goes on.
C8_AtomicTake ==
    /\ \A h \in DOMAIN embedding_cache : embedding_cache[h].reads <= 1
    /\ \A r \in FindReqs :
         /\ req[r].resp # KeyError
         /\ req[r].computed =>
              req[r].emb = EncodeText(ConvertFileToText(req[r].doc, req[r].ext))
         /\ req[r].pc \in {"retrieve", "context", "select", "validate",
                           "retry", "enrich"} => req[r].emb # None

\* A /find_clauses request has read an entry and is about to remove it while
\* another request for the same fingerprint is suspended at its await.
C8_Witness ==
    \E r \in FindReqs, q \in Reqs :
        /\ q # r /\ req[r].pc = "del"
        /\ req[q].pc = "read" /\ HashOf(q) = HashOf(r)

\* C9 as claimed: an entry for h exists from the first embedding computation
\* for h, in either entry point, until the next /find_clauses request with
\* fingerprint h removes it.
C9_CreatedByAnyComputation ==
    \A h \in Hashes :
        /\ computedFor[h] => (h \in DOMAIN embedding_cache \/ MidTake(h))
        /\ h \in DOMAIN embedding_cache => (live[h] # None \/ MidTake(h))

\* C9 as amended: an entry for h exists exactly from an embedding computation
\* of a /process request for h (which creates or overwrites it, and it holds
\* the embedding of the latest one) until the next /find_clauses request with
\* fingerprint h that reaches the cache lookup; /find_clauses creates none.
C9_CreatedByProcessOnly ==
    \A h \in Hashes :
        /\ live[h] # None =>
              /\ h \in DOMAIN embedding_cache
              /\ embedding_cache[h].embedding = live[h]
        /\ h \in DOMAIN embedding_cache => (live[h] # None \/ MidTake(h))

\* A /find_clauses request has removed the entry a /process request created.
C9_Witness ==
    \E r \in FindReqs :
        /\ req[r].expect # None /\ req[r].pc = "retrieve"
        /\ HashOf(r) \notin DOMAIN embedding_cache
        /\ live[HashOf(r)] = None

\* C10: every /process request finds temp_dir present when it writes its
\* files: none is made to fail by another request's cleanup of the directory.
C10_ProcessRequestsIndependent ==
    \A r \in ProcessReqs : req[r].resp # FileNotFound


\* The positions at which a handler is inside a call that does not return until
\* the service or the classifier has answered: the completion calls (lines 317,
\* 368, 407) and predict_climatebert (line 192).
BlockingCalls == {"context", "select", "retry", "classify"}

\* C11: while one request is inside a completion call or the classifier call,
\* another request that is waiting to start or to resume after its await can
\* take its next step: it does not wait for the call of the first.
C11_BlockingCallDoesNotStall ==
    \A r \in Reqs, q \in Reqs :
        (r # q /\ req[r].pc \in BlockingCalls /\ req[q].pc \in AwaitPoints)
            => CanStep(q)


\* C12: the candidate set is the rows of the cluster retrieval, in order,
\* followed by the first rows of the bow retrieval, at most 5 of them; nothing
\* is dropped as a duplicate, so it has at most 5 rows tagged "bow" and at most
\* the cluster size plus 5 rows in all.
C12_CandidateSet ==
    \A r \in FindReqs :
        LET c == req[r].subset_names
            b == req[r].top_names_bow
            d == req[r].cands
            k == IF Len(b) < 5 THEN Len(b) ELSE 5
        IN  /\ Len(d) = Len(c) + k
            /\ \A i \in 1..Len(c) :
                 d[i] = [source_name |-> c[i], matched_by |-> "cluster"]
            /\ \A j \in 1..k :
                 d[Len(c) + j] = [source_name |-> b[j], matched_by |-> "bow"]
            /\ Cardinality({i \in 1..Len(d) : d[i].matched_by = "bow"}) <= 5
            /\ Len(d) <= Len(c) + 5

\* The bow retrieval returned more than 5 rows, and a clause that both
\* retrievals found is in the candidate set twice.
C12_Witness ==
    \E r \in FindReqs :
        LET d == req[r].cands
        IN  /\ Len(req[r].top_names_bow) > 5
            /\ \E i, j \in 1..Len(d) :
                 /\ d[i].matched_by = "cluster" /\ d[j].matched_by = "bow"
                 /\ StripTxt(d[i].source_name) = StripTxt(d[j].source_name)


\* The requests that have built their candidate set from an empty cluster
\* retrieval.
BowOnly == {r \in FindReqs : req[r].messages # <<>> /\ req[r].subset_names = <<>>}

\* C13 as stated: with an empty cluster retrieval the request issues the
\* context call and the selection call and ends in Done or EmptyResult, never
\* in an error.
C13_BowOnlyNeverErrors ==
    \A r \in BowOnly :
        Returned(r) => Calls(r) >= 2 /\ req[r].resp.status = 200

\* C13, amended: with an empty cluster retrieval every candidate is a bow row
\* and the request runs the protocol as with any candidate set: it ends with
\* status 200 and matches (Done or EmptyResult) after the context call and the
\* selection call, unless a completion call raised, which ends it with the
\* error of that call.
C13_BowOnlyRunsProtocol ==
    \A r \in BowOnly :
        /\ \A i \in 1..Len(req[r].cands) : req[r].cands[i].matched_by = "bow"
        /\ Returned(r) =>
             \/ /\ req[r].outcome = "raised"
                /\ req[r].resp = CompletionError
                /\ Calls(r) >= 1
             \/ /\ req[r].outcome \in {"parsed", "unparsed"}
                /\ Calls(r) >= 2
                /\ req[r].resp.status = 200
                /\ req[r].resp.body = "matches"
                /\ req[r].enriched = 0 => req[r].resp.matches = <<>>

\* A request whose candidates are bow rows only has reached Done.
C13_Witness ==
    \E r \in BowOnly :
        /\ req[r].cands # <<>>
        /\ Returned(r) /\ req[r].enriched = 1 /\ req[r].resp.matches # <<>>


\* The request was answered with status 400.
Rejected(r) == Returned(r) /\ req[r].resp.status = 400

\* C14: in both handlers a request whose lower-cased file name has none of the
\* allowed endings is answered with status 400 and the message that lists them;
\* a request answered with 400, for its file name or for a failed conversion,
\* has computed no embedding, taken none from the cache, and issued no
\* classifier or completion call, and none of its steps changed the cache.
C14_RejectedLeavesNoTrace ==
    /\ [](\A r \in Reqs :
            /\ (req[r].kind # "none" /\ Lower(req[r].ext) \notin allowed_extensions)
                   => Returned(r) /\ req[r].resp = UnsupportedFile
            /\ Rejected(r) =>
                   /\ req[r].resp \in {UnsupportedFile, Error400}
                   /\ ~req[r].computed /\ req[r].emb = None
                   /\ req[r].loaded = {} /\ req[r].flagged = 0
                   /\ Calls(r) = 0)
    /\ [][\A r \in Reqs :
            (req[r].pc \in {"idle", "read"} /\ req'[r] # req[r])
                => embedding_cache' = embedding_cache]_vars

\* While the cache holds an entry, a /process request is rejected for a file
\* name in upper case that has no allowed ending.
C14_Witness ==
    /\ DOMAIN embedding_cache # {}
    /\ \E r \in ProcessReqs :
         Rejected(r) /\ req[r].ext = ".EXE" /\ req[r].resp = UnsupportedFile

\* While the cache holds an entry, a /find_clauses request with an allowed
\* file name in upper case is rejected because its conversion fails.
C14_ConversionWitness ==
    /\ DOMAIN embedding_cache # {}
    /\ \E r \in FindReqs :
         Rejected(r) /\ req[r].ext = ".TXT" /\ req[r].resp = Error400


\* The four bucket labels, lines 26-29.
Labels == {CAT0, CAT1, CAT2, CAT3}

C16_RetriedReplyAccepted ==
    \A r \in FindReqs :
        (Returned(r) /\ Calls(r) = 3 /\ req[r].outcome = "parsed") =>
            LET rows == req[r].df.rows
                m == req[r].resp.matches
            IN  /\ req[r].resp.status = 200
                /\ req[r].resp.body = "matches"
                /\ req[r].enriched = 1
                /\ Len(m) = Len(rows)
                /\ \A i \in 1..Len(rows) : m[i] = StripTxt(rows[i])
                /\ req[r].missing # <<>>
                /\ \A i \in 1..Len(req[r].missing) :
                     ~CloseTable[req[r].missing[i]]

\* A retried reply of MaxSel rows, none of which has a close match, was
\* returned in full.
C16_Witness ==
    \E r \in FindReqs :
        /\ Returned(r) /\ Calls(r) = 3 /\ req[r].outcome = "parsed"
        /\ Len(req[r].df.rows) = MaxSel
        /\ Invalid(req[r].df.rows) = 1..MaxSel
        /\ Len(req[r].resp.matches) = MaxSel


Roles(msgs) == [i \in 1..Len(msgs) |-> msgs[i].role]
IsPrefix(p, q) == Len(p) <= Len(q) /\ SubSeq(q, 1, Len(p)) = p
Turns == <<"system", "user", "assistant", "user", "assistant", "user">>

\* C17: the conversation of a request only grows: the i-th completion call is
\* sent the first 2i of the turns system, user, assistant, user, assistant,
\* user, so it ends with a user message; the list of each call extends the
\* list of the call before it, whose messages are unchanged; and the list the
\* handler holds extends the list last sent.
C17_ConversationAppendOnly ==
    \A r \in FindReqs :
        /\ \A i \in 1..Calls(r) :
             LET msgs == req[r].sent[i].messages
             IN  /\ Roles(msgs) = SubSeq(Turns, 1, 2 * i)
                 /\ msgs[Len(msgs)].role = "user"
                 /\ i > 1 =>
                      /\ IsPrefix(req[r].sent[i - 1].messages, msgs)
                      /\ Len(req[r].sent[i - 1].messages) < Len(msgs)
        /\ Calls(r) > 0 =>
             IsPrefix(req[r].sent[Calls(r)].messages, req[r].messages)

\* The retry call has been sent its six messages.
C17_Witness ==
    \E r \in FindReqs :
        /\ Calls(r) = 3
        /\ Len(req[r].sent[3].messages) = 6
        /\ req[r].sent[3].messages[5] = Msg("assistant", "response_text")


\* C18: every entry put into the cache is removed again at some later time,
\* whether or not a /find_clauses request with its fingerprint arrives.
C18_EveryEntryRemoved ==
    \A h \in Hashes :
        (h \in DOMAIN embedding_cache) ~> (h \notin DOMAIN embedding_cache)


\* C19: every completion call of a request is issued with temperature 0 and
\* names the configured model, OPENROUTER_MODEL.
C19_ConfiguredModelAtZero ==
    \A r \in FindReqs :
        \A i \in 1..Calls(r) :
            /\ req[r].sent[i].temperature = 0
            /\ req[r].sent[i].model = OPENROUTER_MODEL


\* The request has passed the file validation: its extension was accepted and
\* its text was converted.
Validated(r) ==
    /\ req[r].kind = "find"
    /\ req[r].pc \notin {"idle", "read"}
    /\ Returned(r) => req[r].resp.status # 400

\* The two terminal outcomes of the selection protocol.
EmptyResult(r) ==
    /\ Returned(r) /\ req[r].resp = MatchesResp(<<>>)
    /\ req[r].outcome = "unparsed" /\ req[r].enriched = 0
Done(r) ==
    /\ Returned(r) /\ req[r].resp.status = 200 /\ req[r].resp.body = "matches"
    /\ Len(req[r].resp.matches) = Len(req[r].df.rows)
    /\ req[r].outcome = "parsed" /\ req[r].enriched = 1

\* C20: a /find_clauses request that has passed the file validation comes to
\* an end, and unless one of its completion calls raised instead of returning
\* a reply, the end is EmptyResult or Done: the enricher has run exactly once
\* on Done and not at all on EmptyResult, and the outcome, once reached, stays
\* until the response is sent.
C20_ReachesOneOutcome ==
    /\ \A r \in Reqs : Validated(r) ~> (Validated(r) /\ Returned(r))
    /\ [](\A r \in Reqs :
            /\ req[r].enriched <= 1
            /\ (Validated(r) /\ Returned(r) /\ req[r].outcome # "raised")
                   => (EmptyResult(r) \/ Done(r)) /\ ~(EmptyResult(r) /\ Done(r)))
    /\ [][\A r \in Reqs :
            (Returned(r) /\ req'[r] # req[r]) => req'[r] = IdleReq]_vars

\* A request has reached Done on the first selection reply.
C20_Witness ==
    \E r \in Reqs :
        /\ Validated(r) /\ Done(r)
        /\ Calls(r) = 2 /\ req[r].resp.matches # <<>>

\* A request has reached EmptyResult on the retried reply.
C20_EmptyWitness ==
    \E r \in Reqs : Validated(r) /\ EmptyResult(r) /\ Calls(r) = 3

=============================================================================
